---- MODULE Spec2Model ----
(***************************************************************************)
(* Model of localfilesync.py: a one-way directory synchronisation tool.    *)
(* The two directory trees are modelled as functions from relative paths   *)
(* (sequences of segments, <<>> being the root) to an entry, and main()    *)
(* is a sequential process whose position is pc.                           *)
(***************************************************************************)
EXTENDS Integers, Sequences, FiniteSets, TLC

VARIABLES src, dst, dry_run, modified, delete, pc, error, answers,
          folders_to_create, folders_to_delete, create_queue, delete_queue,
          new_folders, files_to_copy, copy_queue, prevFile, currFile,
          modified_files, modified_queue, files_to_delete, unlink_queue,
          cancel_report, counts, dst0

vars == <<src, dst, dry_run, modified, delete, pc, error, answers,
          folders_to_create, folders_to_delete, create_queue, delete_queue,
          new_folders, files_to_copy, copy_queue, prevFile, currFile,
          modified_files, modified_queue, files_to_delete, unlink_queue,
          cancel_report, counts, dst0>>

(* ---------------- bounds of the model ---------------- *)
MaxDepth == 2
MaxEntries == 4
MaxTime == 2

Names == {"a", "b"}

(* ---------------- paths and trees ---------------- *)
Root == <<>>

Parent(p) == SubSeq(p, 1, Len(p) - 1)

Last(p) == p[Len(p)]

RECURSIVE PathsOfLen(_)
PathsOfLen(n) ==
    IF n = 0 THEN {Root}
    ELSE {Append(p, s) : p \in PathsOfLen(n - 1), s \in Names}

AllPaths == UNION {PathsOfLen(n) : n \in 1..MaxDepth}

\* the clock during the run: later than every timestamp of the initial trees
Now == MaxTime + 1

DirEntry(t) == [kind |-> "dir", mtime |-> t]

FileEntry(t) == [kind |-> "file", mtime |-> t]

Exists(fs, p) == p \in DOMAIN fs

IsDir(fs, p) == Exists(fs, p) /\ fs[p].kind = "dir"

IsFile(fs, p) == Exists(fs, p) /\ fs[p].kind = "file"

Children(fs, p) == {q \in DOMAIN fs : q # Root /\ Parent(q) = p}

WellFormed(fs) ==
    /\ IsDir(fs, Root)
    /\ \A p \in DOMAIN fs : p # Root => IsDir(fs, Parent(p))

\* the trees whose entries are E: folders start with the oldest timestamp,
\* files with any timestamp up to MaxTime
TreesOn(E) ==
    {fs \in [E \cup {Root} -> {DirEntry(1)} \cup {FileEntry(t) : t \in 1..MaxTime}] :
        WellFormed(fs)}

Trees ==
    UNION {TreesOn(E) : E \in {F \in SUBSET AllPaths : Cardinality(F) <= MaxEntries}}

(* ---------------- Tree Scanner ---------------- *)
RECURSIVE get_subfolders(_, _)
get_subfolders(fs, folder) ==
    UNION {{item} \cup get_subfolders(fs, item) :
              item \in {c \in Children(fs, folder) : IsDir(fs, c)}}

recursivly_get_files(fs) ==
    {p \in DOMAIN fs : /\ p # Root
                       /\ fs[p].kind = "file"
                       /\ Parent(p) \in {Root} \cup get_subfolders(fs, Root)}

NoFile == <<"">>

NoError == <<"none", "none">>

\* lines 89-90: what the KeyboardInterrupt handler prints, NoReport before it runs
NoReport == [copying |-> <<"-">>, previous |-> <<"-">>]

\* the kinds of action the run prints, "Would ..." in a dry run
Kinds == {"mkdir", "rmdir", "copy", "modified", "unlink"}

Prompts == {"main", "copy", "modified", "delete", "delete2"}

Entries(fs) == DOMAIN fs \ {Root}

\* lines 227-238: both roots exist; the two trees hold at most MaxEntries entries
Init ==
    /\ src \in Trees
    /\ dst \in Trees
    /\ Cardinality(Entries(src)) + Cardinality(Entries(dst)) <= MaxEntries
    /\ dry_run \in BOOLEAN
    /\ modified \in BOOLEAN
    /\ delete \in BOOLEAN
    /\ pc = "main"
    /\ error = NoError
    /\ answers = [p \in Prompts |-> "none"]
    /\ folders_to_create = {}
    /\ folders_to_delete = {}
    /\ create_queue = <<>>
    /\ delete_queue = <<>>
    /\ new_folders = <<>>
    /\ files_to_copy = {}
    /\ copy_queue = <<>>
    /\ prevFile = NoFile
    /\ currFile = NoFile
    /\ modified_files = <<>>
    /\ modified_queue = <<>>
    /\ files_to_delete = {}
    /\ unlink_queue = <<>>
    /\ cancel_report = NoReport
    /\ counts = [k \in Kinds |-> 0]
    /\ dst0 = dst

(* ---------------- filesystem primitives ---------------- *)
Touch(fs, p, t) == [fs EXCEPT ![p].mtime = t]

Without(fs, p) == [q \in DOMAIN fs \ {p} |-> fs[q]]

With(fs, p, e) == [q \in DOMAIN fs \cup {p} |-> IF q = p THEN e ELSE fs[q]]

\* pathlib.Path.mkdir(): the error it raises, "none" when it succeeds
MkdirError(fs, p) ==
    IF Exists(fs, p) THEN "FileExistsError"
    ELSE IF ~Exists(fs, Parent(p)) THEN "FileNotFoundError"
    ELSE IF ~IsDir(fs, Parent(p)) THEN "NotADirectoryError"
    ELSE "none"

Mkdir(fs, p) == Touch(With(fs, p, DirEntry(Now)), Parent(p), Now)

\* pathlib.Path.rmdir()
RmdirError(fs, p) ==
    IF ~Exists(fs, p) THEN "FileNotFoundError"
    ELSE IF ~IsDir(fs, p) THEN "NotADirectoryError"
    ELSE IF Children(fs, p) # {} THEN "DirectoryNotEmpty"
    ELSE "none"

Rmdir(fs, p) == Touch(Without(fs, p), Parent(p), Now)

\* pathlib.Path.unlink()
UnlinkError(fs, p) ==
    IF ~Exists(fs, p) THEN "FileNotFoundError"
    ELSE IF IsDir(fs, p) THEN "IsADirectoryError"
    ELSE "none"

Unlink(fs, p) == Touch(Without(fs, p), Parent(p), Now)

\* shutil.copy2(source/f, destination/g): a destination that is a directory
\* receives the file under the source's base name
CopyTarget(fs, f, g) == IF IsDir(fs, g) THEN Append(g, Last(f)) ELSE g

Copy2Error(fs, f, g) ==
    IF IsDir(fs, CopyTarget(fs, f, g)) THEN "IsADirectoryError"
    ELSE IF ~IsDir(fs, Parent(CopyTarget(fs, f, g))) THEN "FileNotFoundError"
    ELSE "none"

\* mutant of Copy2: nothing is written
Copy2Skipped(from, fs, f, g) == fs

Copy2(from, fs, f, g) ==
    LET t == CopyTarget(fs, f, g)
        withParent == IF Exists(fs, t) THEN fs ELSE Touch(fs, Parent(t), Now)
    IN  With(withParent, t, FileEntry(from[f].mtime))

(* ---------------- orderings ---------------- *)
Range(q) == {q[i] : i \in DOMAIN q}

\* every list holding the elements of S once: the possible iteration orders of a set
Orders(S) ==
    {q \in [1..Cardinality(S) -> S] : Range(q) = S}

\* mutant of SortedByLen: the creation list sorted deepest first
SortedByLenDescending(S) ==
    {q \in Orders(S) : \A i, j \in DOMAIN q : i < j => Len(q[i]) >= Len(q[j])}

\* sorted(S, key=len)
SortedByLen(S) ==
    {q \in Orders(S) : \A i, j \in DOMAIN q : i < j => Len(q[i]) <= Len(q[j])}

\* mutant of SortedByLenReversed: reverse=True left out
SortedByLenAscending(S) ==
    {q \in Orders(S) : \A i, j \in DOMAIN q : i < j => Len(q[i]) <= Len(q[j])}

\* sorted(S, key=len, reverse=True)
SortedByLenReversed(S) ==
    {q \in Orders(S) : \A i, j \in DOMAIN q : i < j => Len(q[i]) >= Len(q[j])}

(* ---------------- Diff Engine ---------------- *)
\* mutant of FoldersToCreate: the operands of the difference swapped
FoldersToCreateSwapped(source_subfolders, destination_subfolders) ==
    destination_subfolders \ source_subfolders

\* line 162
FoldersToCreate(source_subfolders, destination_subfolders) ==
    source_subfolders \ destination_subfolders

\* line 163
FoldersToDelete(source_subfolders, destination_subfolders) ==
    destination_subfolders \ source_subfolders

\* line 47
FilesToCopy(source_files, dest_files) == source_files \ dest_files

\* mutant of FilesToDelete: every destination file is a candidate
FilesToDeleteAll(source_files, dest_files) == dest_files

\* line 130
FilesToDelete(source_files, dest_files) == dest_files \ source_files

Answers == {"y", "n", "l"}

(* ---------------- main ---------------- *)
\* mutant of RealRun: the dry_run flag ignored
RealRunAlways == TRUE

\* lines 66, 119, 151, 172, 187: "if not dry_run"
RealRun == ~dry_run

AfterModified == IF delete THEN "delete_files" ELSE "done"

AfterFiles == IF modified THEN "sync_modified_files" ELSE AfterModified

\* mutant of Raise: the exception is swallowed and the caller goes on
RaiseAndContinue(call, e) == error' = <<call, e>> /\ UNCHANGED pc

\* an exception no handler catches ends the process
Raise(call, e) == pc' = "crashed" /\ error' = <<call, e>>

\* one more action of the kind printed ("Creating folder", "Would copy file", ...)
Count(kind) == [counts EXCEPT ![kind] = @ + 1]

\* lines 248-249: "Do you want to continue?"
MainConfirm(ans) ==
    /\ pc = "main"
    /\ answers' = [answers EXCEPT !["main"] = ans]
    /\ pc' = IF ans = "y" THEN "sync_folders" ELSE "done"
    /\ UNCHANGED <<src, dst, dry_run, modified, delete, error,
                   folders_to_create, folders_to_delete, create_queue, delete_queue,
                   new_folders, files_to_copy, copy_queue, prevFile, currFile,
                   modified_files, modified_queue, files_to_delete, unlink_queue>>
    /\ UNCHANGED <<cancel_report, counts, dst0>>

(* ---------------- sync_folders ---------------- *)
\* lines 160-168: the two scans, the two differences, the sorted create list
SyncFoldersBegin ==
    /\ pc = "sync_folders"
    /\ folders_to_create' = FoldersToCreate(get_subfolders(src, Root), get_subfolders(dst, Root))
    /\ folders_to_delete' = FoldersToDelete(get_subfolders(src, Root), get_subfolders(dst, Root))
    /\ create_queue' \in SortedByLen(folders_to_create')
    /\ new_folders' = <<>>
    /\ pc' = "create_folders"
    /\ UNCHANGED <<src, dst, dry_run, modified, delete, error, answers, delete_queue,
                   files_to_copy, copy_queue, prevFile, currFile,
                   modified_files, modified_queue, files_to_delete, unlink_queue>>
    /\ UNCHANGED <<cancel_report, counts, dst0>>

\* lines 168-181: one iteration of the creation loop
CreateFolder ==
    /\ pc = "create_folders"
    /\ create_queue # <<>>
    /\ LET folder == Head(create_queue) IN
        /\ new_folders' = Append(new_folders, folder)
        /\ create_queue' = Tail(create_queue)
        /\ IF ~RealRun
             THEN UNCHANGED <<dst, pc, error>>
             ELSE IF MkdirError(dst, folder) # "none"
                    THEN Raise("mkdir", MkdirError(dst, folder)) /\ UNCHANGED dst
                    ELSE /\ dst' = Touch(Mkdir(dst, folder), folder, src[folder].mtime)
                         /\ UNCHANGED <<pc, error>>
        /\ counts' = IF ~RealRun \/ MkdirError(dst, folder) = "none"
                       THEN Count("mkdir") ELSE counts
    /\ UNCHANGED <<src, dry_run, modified, delete, answers,
                   folders_to_create, folders_to_delete, delete_queue,
                   files_to_copy, copy_queue, prevFile, currFile,
                   modified_files, modified_queue, files_to_delete, unlink_queue>>
    /\ UNCHANGED <<cancel_report, dst0>>

\* line 185: the creation loop is over, the delete list is sorted
CreateFoldersDone ==
    /\ pc = "create_folders"
    /\ create_queue = <<>>
    /\ delete_queue' \in SortedByLenReversed(folders_to_delete)
    /\ pc' = "delete_folders"
    /\ UNCHANGED <<src, dst, dry_run, modified, delete, error, answers,
                   folders_to_create, folders_to_delete, create_queue,
                   new_folders, files_to_copy, copy_queue, prevFile, currFile,
                   modified_files, modified_queue, files_to_delete, unlink_queue>>
    /\ UNCHANGED <<cancel_report, counts, dst0>>

\* lines 185-191: one iteration of the deletion loop
DeleteFolder ==
    /\ pc = "delete_folders"
    /\ delete_queue # <<>>
    /\ LET folder == Head(delete_queue) IN
        /\ delete_queue' = Tail(delete_queue)
        /\ IF ~RealRun
             THEN UNCHANGED <<dst, pc, error>>
             ELSE IF RmdirError(dst, folder) # "none"
                    THEN Raise("rmdir", RmdirError(dst, folder)) /\ UNCHANGED dst
                    ELSE dst' = Rmdir(dst, folder) /\ UNCHANGED <<pc, error>>
        /\ counts' = IF ~RealRun \/ RmdirError(dst, folder) = "none"
                       THEN Count("rmdir") ELSE counts
    /\ UNCHANGED <<src, dry_run, modified, delete, answers,
                   folders_to_create, folders_to_delete, create_queue,
                   new_folders, files_to_copy, copy_queue, prevFile, currFile,
                   modified_files, modified_queue, files_to_delete, unlink_queue>>
    /\ UNCHANGED <<cancel_report, dst0>>

\* line 193 and line 252: sync_folders returns, main calls sync_files
SyncFoldersReturn ==
    /\ pc = "delete_folders"
    /\ delete_queue = <<>>
    /\ pc' = "sync_files"
    /\ UNCHANGED <<src, dst, dry_run, modified, delete, error, answers,
                   folders_to_create, folders_to_delete, create_queue, delete_queue,
                   new_folders, files_to_copy, copy_queue, prevFile, currFile,
                   modified_files, modified_queue, files_to_delete, unlink_queue>>
    /\ UNCHANGED <<cancel_report, counts, dst0>>

(* ---------------- sync_files ---------------- *)
\* lines 44-56: the two scans, the difference, the early return
SyncFilesBegin ==
    /\ pc = "sync_files"
    /\ files_to_copy' = FilesToCopy(recursivly_get_files(src), recursivly_get_files(dst))
    /\ prevFile' = NoFile
    /\ currFile' = NoFile
    /\ pc' = IF files_to_copy' = {} THEN AfterFiles ELSE "copy_prompt"
    /\ UNCHANGED <<src, dst, dry_run, modified, delete, error, answers,
                   folders_to_create, folders_to_delete, create_queue, delete_queue,
                   new_folders, copy_queue,
                   modified_files, modified_queue, files_to_delete, unlink_queue>>
    /\ UNCHANGED <<cancel_report, counts, dst0>>

\* lines 58-63: "Do you want to copy the new files?"
CopyConfirm(ans) ==
    /\ pc = "copy_prompt"
    /\ answers' = [answers EXCEPT !["copy"] = ans]
    /\ IF ans = "y"
         THEN copy_queue' \in Orders(files_to_copy) /\ pc' = "copy_files"
         ELSE UNCHANGED copy_queue /\ pc' = AfterFiles
    /\ UNCHANGED <<src, dst, dry_run, modified, delete, error,
                   folders_to_create, folders_to_delete, create_queue, delete_queue,
                   new_folders, files_to_copy, prevFile, currFile,
                   modified_files, modified_queue, files_to_delete, unlink_queue>>
    /\ UNCHANGED <<cancel_report, counts, dst0>>

\* lines 84-87: one iteration of the copy loop in a dry run
WouldCopyFile ==
    /\ pc = "copy_files"
    /\ copy_queue # <<>>
    /\ ~RealRun
    /\ copy_queue' = Tail(copy_queue)
    /\ counts' = Count("copy")
    /\ UNCHANGED <<src, dst, dry_run, modified, delete, pc, error, answers,
                   folders_to_create, folders_to_delete, create_queue, delete_queue,
                   new_folders, files_to_copy, prevFile, currFile,
                   modified_files, modified_queue, files_to_delete, unlink_queue>>
    /\ UNCHANGED <<cancel_report, dst0>>

\* lines 66-80: the iteration reaches the copy: prevFile and currFile move on
CopyFileStart ==
    /\ pc = "copy_files"
    /\ copy_queue # <<>>
    /\ RealRun
    /\ prevFile' = currFile
    /\ currFile' = Head(copy_queue)
    /\ pc' = "copying"
    /\ UNCHANGED <<src, dst, dry_run, modified, delete, error, answers,
                   folders_to_create, folders_to_delete, create_queue, delete_queue,
                   new_folders, files_to_copy, copy_queue,
                   modified_files, modified_queue, files_to_delete, unlink_queue>>
    /\ UNCHANGED <<cancel_report, counts, dst0>>

\* lines 81-83: shutil.copy2 returns or raises
CopyFileEnd ==
    /\ pc = "copying"
    /\ LET f == Head(copy_queue) IN
        IF Copy2Error(dst, f, f) # "none"
          THEN Raise("copy2", Copy2Error(dst, f, f)) /\ UNCHANGED <<dst, copy_queue, counts>>
          ELSE /\ dst' = Copy2(src, dst, f, f)
               /\ copy_queue' = Tail(copy_queue)
               /\ counts' = Count("copy")
               /\ pc' = "copy_files"
               /\ UNCHANGED error
    /\ UNCHANGED <<src, dry_run, modified, delete, answers,
                   folders_to_create, folders_to_delete, create_queue, delete_queue,
                   new_folders, files_to_copy, prevFile, currFile,
                   modified_files, modified_queue, files_to_delete, unlink_queue>>
    /\ UNCHANGED <<cancel_report, dst0>>

\* the destination a copy2 interrupted before its end can leave behind:
\* nothing written, the file written without its metadata, or the whole copy
InterruptedCopy(from, fs, f, g) ==
    {fs, With(Copy2(from, fs, f, g), CopyTarget(fs, f, g), FileEntry(Now)), Copy2(from, fs, f, g)}

\* mutant of AfterCancel: the handler without exit(1), the loop goes on
AfterCancelContinue == "copy_files"

\* line 91: exit(1)
AfterCancel == "exit1"

\* lines 88-91: KeyboardInterrupt inside the try of the copy loop
Interrupt ==
    /\ \/ /\ pc = "copy_files"
          /\ copy_queue # <<>>
          /\ UNCHANGED dst
       \/ /\ pc = "copying"
          /\ IF Copy2Error(dst, Head(copy_queue), Head(copy_queue)) # "none"
               THEN UNCHANGED dst
               ELSE dst' \in InterruptedCopy(src, dst, Head(copy_queue), Head(copy_queue))
    /\ cancel_report' = [copying |-> currFile, previous |-> prevFile]
    /\ pc' = AfterCancel
    /\ UNCHANGED <<src, dry_run, modified, delete, error, answers,
                   folders_to_create, folders_to_delete, create_queue, delete_queue,
                   new_folders, files_to_copy, copy_queue, prevFile, currFile,
                   modified_files, modified_queue, files_to_delete, unlink_queue>>
    /\ UNCHANGED <<counts, dst0>>

\* line 63 exhausted, lines 254-258: sync_files returns to main
SyncFilesReturn ==
    /\ pc = "copy_files"
    /\ copy_queue = <<>>
    /\ pc' = AfterFiles
    /\ UNCHANGED <<src, dst, dry_run, modified, delete, error, answers,
                   folders_to_create, folders_to_delete, create_queue, delete_queue,
                   new_folders, files_to_copy, copy_queue, prevFile, currFile,
                   modified_files, modified_queue, files_to_delete, unlink_queue>>
    /\ UNCHANGED <<cancel_report, counts, dst0>>

(* ---------------- sync_modified_files ---------------- *)
\* mutant of Flagged: >= in place of >
FlaggedOrEqual(from, to, source_files) ==
    {f \in source_files : from[f].mtime >= to[f].mtime}

\* line 103: the files of the source scan whose stat() pair compares as newer
Flagged(from, to, source_files) ==
    {f \in source_files : from[f].mtime > to[f].mtime}

\* lines 95-109: the two scans and the detection loop over source_files
SyncModifiedBegin ==
    /\ pc = "sync_modified_files"
    /\ LET source_files == recursivly_get_files(src) IN
        IF \E f \in source_files : ~Exists(dst, f)
          THEN Raise("stat", "FileNotFoundError") /\ UNCHANGED <<modified_files, modified_queue>>
          ELSE /\ modified_files' \in Orders(Flagged(src, dst, source_files))
               /\ modified_queue' = modified_files'
               /\ pc' = IF modified_files' = <<>> THEN AfterModified ELSE "modified_prompt"
               /\ UNCHANGED error
    /\ UNCHANGED <<src, dst, dry_run, modified, delete, answers,
                   folders_to_create, folders_to_delete, create_queue, delete_queue,
                   new_folders, files_to_copy, copy_queue, prevFile, currFile,
                   files_to_delete, unlink_queue>>
    /\ UNCHANGED <<cancel_report, counts, dst0>>

\* lines 111-113: "Do you want to copy the changes?"
ModifiedConfirm(ans) ==
    /\ pc = "modified_prompt"
    /\ answers' = [answers EXCEPT !["modified"] = ans]
    /\ pc' = IF ans = "y" THEN "copy_modified" ELSE AfterModified
    /\ UNCHANGED <<src, dst, dry_run, modified, delete, error,
                   folders_to_create, folders_to_delete, create_queue, delete_queue,
                   new_folders, files_to_copy, copy_queue, prevFile, currFile,
                   modified_files, modified_queue, files_to_delete, unlink_queue>>
    /\ UNCHANGED <<cancel_report, counts, dst0>>

\* mutant of CopyModifiedFile: the arguments of copy2 swapped
CopyModifiedFileSwapped ==
    /\ pc = "copy_modified"
    /\ modified_queue # <<>>
    /\ LET f == Head(modified_queue) IN
        IF ~RealRun
          THEN /\ modified_queue' = Tail(modified_queue)
               /\ counts' = Count("modified")
               /\ UNCHANGED <<src, dst, pc, error>>
          ELSE IF Copy2Error(dst, f, f) # "none"
                 THEN /\ Raise("copy2", Copy2Error(dst, f, f))
                      /\ UNCHANGED <<src, dst, modified_queue, counts>>
                 ELSE /\ src' = Copy2(dst, src, f, f)
                      /\ modified_queue' = Tail(modified_queue)
                      /\ counts' = Count("modified")
                      /\ UNCHANGED <<dst, pc, error>>
    /\ UNCHANGED <<dry_run, modified, delete, answers,
                   folders_to_create, folders_to_delete, create_queue, delete_queue,
                   new_folders, files_to_copy, copy_queue, prevFile, currFile,
                   modified_files, files_to_delete, unlink_queue>>
    /\ UNCHANGED <<cancel_report, dst0>>

\* lines 115-123: one iteration of the copy loop over the pairs
CopyModifiedFile ==
    /\ pc = "copy_modified"
    /\ modified_queue # <<>>
    /\ LET f == Head(modified_queue) IN
        IF ~RealRun
          THEN /\ modified_queue' = Tail(modified_queue)
               /\ counts' = Count("modified")
               /\ UNCHANGED <<dst, pc, error>>
          ELSE IF Copy2Error(dst, f, f) # "none"
                 THEN /\ Raise("copy2", Copy2Error(dst, f, f))
                      /\ UNCHANGED <<dst, modified_queue, counts>>
                 ELSE /\ dst' = Copy2(src, dst, f, f)
                      /\ modified_queue' = Tail(modified_queue)
                      /\ counts' = Count("modified")
                      /\ UNCHANGED <<pc, error>>
    /\ UNCHANGED <<src, dry_run, modified, delete, answers,
                   folders_to_create, folders_to_delete, create_queue, delete_queue,
                   new_folders, files_to_copy, copy_queue, prevFile, currFile,
                   modified_files, files_to_delete, unlink_queue>>
    /\ UNCHANGED <<cancel_report, dst0>>

\* line 115 exhausted, lines 257-258: sync_modified_files returns to main
SyncModifiedReturn ==
    /\ pc = "copy_modified"
    /\ modified_queue = <<>>
    /\ pc' = AfterModified
    /\ UNCHANGED <<src, dst, dry_run, modified, delete, error, answers,
                   folders_to_create, folders_to_delete, create_queue, delete_queue,
                   new_folders, files_to_copy, copy_queue, prevFile, currFile,
                   modified_files, modified_queue, files_to_delete, unlink_queue>>
    /\ UNCHANGED <<cancel_report, counts, dst0>>

(* ---------------- delete_files ---------------- *)
\* lines 127-132: the two scans and the difference
DeleteFilesBegin ==
    /\ pc = "delete_files"
    /\ files_to_delete' = FilesToDelete(recursivly_get_files(src), recursivly_get_files(dst))
    /\ pc' = "delete_prompt"
    /\ UNCHANGED <<src, dst, dry_run, modified, delete, error, answers,
                   folders_to_create, folders_to_delete, create_queue, delete_queue,
                   new_folders, files_to_copy, copy_queue, prevFile, currFile,
                   modified_files, modified_queue, unlink_queue>>
    /\ UNCHANGED <<cancel_report, counts, dst0>>

\* lines 134-146: "Do you want to delete the files? (y/N/l)"
DeleteConfirm(ans) ==
    /\ pc = "delete_prompt"
    /\ answers' = [answers EXCEPT !["delete"] = ans]
    /\ IF ans = "y"
         THEN unlink_queue' \in Orders(files_to_delete) /\ pc' = "unlink_files"
         ELSE /\ UNCHANGED unlink_queue
              /\ pc' = IF ans = "l" THEN "delete_prompt2" ELSE "done"
    /\ UNCHANGED <<src, dst, dry_run, modified, delete, error,
                   folders_to_create, folders_to_delete, create_queue, delete_queue,
                   new_folders, files_to_copy, copy_queue, prevFile, currFile,
                   modified_files, modified_queue, files_to_delete>>
    /\ UNCHANGED <<cancel_report, counts, dst0>>

\* lines 140-144: the list, then "Do you want to continue?"
DeleteConfirmAfterList(ans) ==
    /\ pc = "delete_prompt2"
    /\ answers' = [answers EXCEPT !["delete2"] = ans]
    /\ IF ans = "y"
         THEN unlink_queue' \in Orders(files_to_delete) /\ pc' = "unlink_files"
         ELSE UNCHANGED unlink_queue /\ pc' = "done"
    /\ UNCHANGED <<src, dst, dry_run, modified, delete, error,
                   folders_to_create, folders_to_delete, create_queue, delete_queue,
                   new_folders, files_to_copy, copy_queue, prevFile, currFile,
                   modified_files, modified_queue, files_to_delete>>
    /\ UNCHANGED <<cancel_report, counts, dst0>>

\* line 153: the error of delete_file.unlink() when the filesystem may also
\* refuse the removal (read-only file, no permission on the folder)
UnlinkOutcomes(fs, p) ==
    IF UnlinkError(fs, p) # "none" THEN {UnlinkError(fs, p)} ELSE {"none", "PermissionError"}

\* lines 148-155: one iteration of the deletion loop
DeleteFile ==
    /\ pc = "unlink_files"
    /\ unlink_queue # <<>>
    /\ LET f == Head(unlink_queue) IN
        IF ~RealRun
          THEN /\ unlink_queue' = Tail(unlink_queue)
               /\ counts' = Count("unlink")
               /\ UNCHANGED <<dst, pc, error>>
          ELSE \E e \in UnlinkOutcomes(dst, f) :
                 IF e # "none"
                   THEN Raise("unlink", e) /\ UNCHANGED <<dst, unlink_queue, counts>>
                   ELSE /\ dst' = Unlink(dst, f)
                        /\ unlink_queue' = Tail(unlink_queue)
                        /\ counts' = Count("unlink")
                        /\ UNCHANGED <<pc, error>>
    /\ UNCHANGED <<src, dry_run, modified, delete, answers,
                   folders_to_create, folders_to_delete, create_queue, delete_queue,
                   new_folders, files_to_copy, copy_queue, prevFile, currFile,
                   modified_files, modified_queue, files_to_delete>>
    /\ UNCHANGED <<cancel_report, dst0>>

\* line 148 exhausted: delete_files and main return
DeleteFilesReturn ==
    /\ pc = "unlink_files"
    /\ unlink_queue = <<>>
    /\ pc' = "done"
    /\ UNCHANGED <<src, dst, dry_run, modified, delete, error, answers,
                   folders_to_create, folders_to_delete, create_queue, delete_queue,
                   new_folders, files_to_copy, copy_queue, prevFile, currFile,
                   modified_files, modified_queue, files_to_delete, unlink_queue>>
    /\ UNCHANGED <<cancel_report, counts, dst0>>

(* ---------------- properties ---------------- *)
NonDecreasing(q) == \A i, j \in DOMAIN q : i < j => Len(q[i]) <= Len(q[j])

NonIncreasing(q) == \A i, j \in DOMAIN q : i < j => Len(q[i]) >= Len(q[j])

IsUnder(q, p) == Len(q) > Len(p) /\ SubSeq(q, 1, Len(p)) = p

FilesUnder(fs, p) == {q \in DOMAIN fs : IsFile(fs, q) /\ IsUnder(q, p)}

CommonFiles == recursivly_get_files(src) \cap recursivly_get_files(dst)

Terminated == pc \in {"done", "crashed", "exit1"}

\* the operator answered yes to every prompt issued so far
Confirmed ==
    /\ answers["main"] = "y"
    /\ answers["copy"] \in {"none", "y"}
    /\ answers["modified"] \in {"none", "y"}
    /\ \/ answers["delete"] \in {"none", "y"}
       \/ answers["delete"] = "l" /\ answers["delete2"] \in {"none", "y"}

\* sync_files has returned normally to main
AfterSyncFiles ==
    pc \in {"sync_modified_files", "modified_prompt", "copy_modified", "delete_files",
            "delete_prompt", "delete_prompt2", "unlink_files", "done"}

\* C1: in a real run the folders to create are taken in non-decreasing order
\* of segment count, and whenever a folder is about to be created its parent
\* is a directory of the destination.
C1_ParentsCreatedFirst ==
    (~dry_run /\ pc = "create_folders") =>
        /\ NonDecreasing(new_folders \o create_queue)
        /\ create_queue # <<>> => IsDir(dst, Parent(Head(create_queue)))

\* a folder is about to be created whose parent was created earlier in the pass
C1_Witness ==
    /\ ~dry_run
    /\ pc = "create_folders"
    /\ create_queue # <<>>
    /\ Parent(Head(create_queue)) \in Range(new_folders)
    /\ IsDir(dst, Parent(Head(create_queue)))

\* C2: in a real run the folders to delete are taken in non-increasing order
\* of segment count, and whenever a folder is about to be removed it holds no
\* subdirectory.
C2_ChildrenRemovedFirst ==
    (~dry_run /\ pc = "delete_folders") =>
        /\ NonIncreasing(delete_queue)
        /\ delete_queue # <<>> =>
              \A c \in Children(dst, Head(delete_queue)) : ~IsDir(dst, c)

\* a folder is about to be removed whose subfolder was removed earlier in the pass
C2_Witness ==
    /\ ~dry_run
    /\ pc = "delete_folders"
    /\ delete_queue # <<>>
    /\ \E c \in folders_to_delete : Parent(c) = Head(delete_queue) /\ ~Exists(dst, c)

\* C3: no step of a dry run changes the destination tree or the source tree
\* (entries, kinds and timestamps), whatever the options and the answers.
C3_DryRunMutatesNothing == [][dry_run => (dst' = dst /\ src' = src)]_vars

\* a dry run has gone through folder creation, a confirmed copy and a confirmed deletion
C3_Witness ==
    /\ dry_run
    /\ pc = "done"
    /\ folders_to_create # {}
    /\ files_to_copy # {} /\ answers["copy"] = "y"
    /\ files_to_delete # {} /\ answers["delete"] = "y"
    /\ unlink_queue = <<>>

\* C4: once a real run with delete enabled and every prompt confirmed has
\* ended, the destination holds exactly the source's file paths; and no step
\* writes or deletes a file of both trees that is not modified.
C4_MirrorAfterFullRun ==
    /\ [](( /\ Terminated
            /\ ~dry_run
            /\ delete
            /\ Confirmed ) =>
              recursivly_get_files(dst) = recursivly_get_files(src))
    /\ [][\A f \in CommonFiles :
             src[f].mtime <= dst[f].mtime => (IsFile(dst', f) /\ dst'[f] = dst[f])]_vars

\* C5: in a real run with every phase enabled, a folder that is about to be
\* removed holds no file, and no rmdir fails on a non-empty folder.
C5_FilesRemovedBeforeFolder ==
    (~dry_run /\ modified /\ delete /\ Confirmed) =>
        /\ (pc = "delete_folders" /\ delete_queue # <<>>) =>
               FilesUnder(dst, Head(delete_queue)) = {}
        /\ error # <<"rmdir", "DirectoryNotEmpty">>

\* C6: in a real run with the delete option off, no step removes an entry
\* (file or folder) of the destination.
C6_NoRemovalWithoutDelete ==
    [][(~dry_run /\ ~delete) => Entries(dst) \subseteq Entries(dst')]_vars

\* C7: in a real run, while new files are copied the folder phase is over,
\* every folder it had to create is there, and the parent of every file
\* still to copy is a directory of the destination.
C7_FoldersBeforeFiles ==
    (~dry_run /\ pc \in {"copy_files", "copying"}) =>
        /\ create_queue = <<>>
        /\ delete_queue = <<>>
        /\ \A d \in folders_to_create : IsDir(dst, d)
        /\ \A f \in Range(copy_queue) : IsDir(dst, Parent(f))

\* a file is being copied into a folder that this run created
C7_Witness ==
    /\ ~dry_run
    /\ pc = "copying"
    /\ Parent(Head(copy_queue)) \in folders_to_create

\* C8: after a real run of sync_folders and sync_files with the copy
\* confirmed, the differences a second run would compute for creation and
\* copy are empty.
C8_SecondRunDiffsEmpty ==
    ( /\ ~dry_run
      /\ AfterSyncFiles
      /\ answers["main"] = "y"
      /\ (answers["copy"] = "y" \/ files_to_copy = {}) ) =>
        /\ FoldersToCreate(get_subfolders(src, Root), get_subfolders(dst, Root)) = {}
        /\ FilesToCopy(recursivly_get_files(src), recursivly_get_files(dst)) = {}

\* a real run that created folders and copied files has ended
C8_Witness ==
    /\ ~dry_run
    /\ pc = "done"
    /\ answers["copy"] = "y"
    /\ folders_to_create # {}
    /\ files_to_copy # {}

DetectionJustRan ==
    \/ pc = "modified_prompt"
    \/ modified /\ answers["modified"] = "none" /\ pc = "delete_files"
    \/ modified /\ ~delete /\ answers["main"] = "y" /\ answers["modified"] = "none"
         /\ pc = "done"

\* C10: after detection a file of both trees is in modified_files iff its
\* source timestamp is strictly greater than its destination timestamp, and
\* a step of the modified-file copy changes only such flagged files.
C10_StrictlyNewerIsModified ==
    /\ [](DetectionJustRan =>
            \A f \in CommonFiles :
                f \in Range(modified_files) <=> src[f].mtime > dst[f].mtime)
    /\ [][pc = "copy_modified" =>
            \A p \in DOMAIN dst' :
                (p \notin DOMAIN dst \/ dst'[p] # dst[p]) =>
                    /\ p \in Range(modified_files)
                    /\ IsFile(dst, p)
                    /\ src[p].mtime > dst[p].mtime]_vars

\* a flagged file has been overwritten while a file with equal timestamps was left out
C10_Witness ==
    /\ ~dry_run
    /\ pc = "copy_modified"
    /\ Len(modified_queue) < Len(modified_files)
    /\ \E f \in CommonFiles \ Range(modified_files) : src[f].mtime = dst[f].mtime
    /\ \E f \in CommonFiles \cap Range(modified_files) : src[f].mtime = dst[f].mtime

\* the new files whose copy the loop has finished
Copied == files_to_copy \ Range(copy_queue)

\* C11: when a real new-file copy is interrupted, the file reported as being
\* copied is the next file of the iteration, not yet finished by the loop,
\* the file reported as previous is one whose copy completed (none if no copy
\* completed), the files before the reported one are in the destination and
\* the files after it are absent.
C11_ReportNamesInProgressFile ==
    (~dry_run /\ cancel_report # NoReport) =>
        /\ copy_queue # <<>>
        /\ cancel_report.copying = Head(copy_queue)
        /\ IF Copied = {} THEN cancel_report.previous = NoFile
                          ELSE cancel_report.previous \in Copied
        /\ \A f \in Copied : IsFile(dst, f)
        /\ \A f \in Range(Tail(copy_queue)) : ~Exists(dst, f)

\* C12: once the interrupt handler has run the process is at exit(1) and
\* takes no further step: no file is copied, and neither the modified-file
\* phase nor the prune phase runs.
C12_InterruptEndsProcess ==
    /\ [](cancel_report # NoReport => pc = "exit1")
    /\ [][cancel_report = NoReport]_vars

\* a real run with every option on was interrupted with files still to copy
C12_Witness ==
    /\ cancel_report # NoReport
    /\ pc = "exit1"
    /\ ~dry_run /\ modified /\ delete
    /\ Copied # {}
    /\ Len(copy_queue) > 1

\* the operator answered something other than yes to a yes/no prompt
Declined(prompt) == answers[prompt] \in {"n", "l"}

\* C13: after the operator declined the new-file copy or the modified-file
\* copy, the run is not ended by an error of a later phase (a removal that
\* the filesystem refuses set aside).
C13_DeclineEndsOnlyItsPhase ==
    (Declined("copy") \/ Declined("modified")) =>
        (pc = "crashed" => error = <<"unlink", "PermissionError">>)

\* what a dry run with every phase enabled and every prompt confirmed prints
\* for the trees from and to, which it leaves unchanged: the sizes of the
\* differences, and nothing for the last two phases when the detection loop
\* fails on a source file that the destination lacks
DryCounts(from, to) ==
    LET source_files == recursivly_get_files(from)
        dest_files == recursivly_get_files(to)
        statFails == \E f \in source_files : ~Exists(to, f)
    IN  [k \in Kinds |->
           CASE k = "mkdir" ->
                  Cardinality(FoldersToCreate(get_subfolders(from, Root), get_subfolders(to, Root)))
             [] k = "rmdir" ->
                  Cardinality(FoldersToDelete(get_subfolders(from, Root), get_subfolders(to, Root)))
             [] k = "copy" -> Cardinality(FilesToCopy(source_files, dest_files))
             [] k = "modified" ->
                  IF statFails THEN 0 ELSE Cardinality(Flagged(from, to, source_files))
             [] k = "unlink" ->
                  IF statFails THEN 0 ELSE Cardinality(FilesToDelete(source_files, dest_files))]

\* holds of every dry run: DryCounts is what the dry run prints
DryRunPrintsDryCounts ==
    ( /\ dry_run
      /\ pc \in {"done", "crashed"}
      /\ modified /\ delete
      /\ Confirmed ) =>
        counts = DryCounts(src, dst)

\* C14: with every phase enabled and every prompt confirmed, a run that has
\* ended, dry or real, has printed or performed for each kind of action the
\* number the dry run prints for the initial trees (a removal that the
\* filesystem refuses set aside).
C14_DryRunCountsMatch ==
    ( /\ pc \in {"done", "crashed"}
      /\ modified /\ delete
      /\ Confirmed
      /\ error # <<"unlink", "PermissionError">> ) =>
        counts = DryCounts(src, dst0)

\* C15: the prune phase prompts only when there is a file to delete.
C15_NoPromptWhenNothingToDelete ==
    pc \in {"delete_prompt", "delete_prompt2"} => files_to_delete # {}

\* the operator has confirmed the deletion, at once or after the list
DeletionConfirmed ==
    \/ answers["delete"] = "y"
    \/ answers["delete"] = "l" /\ answers["delete2"] = "y"

InPrune == pc \in {"delete_files", "delete_prompt", "delete_prompt2", "unlink_files"}

\* C16: a step of the prune phase leaves the destination unchanged unless
\* the deletion was confirmed, and an entry it removes is a file of the
\* destination that the source lacks.
C16_DeleteOnlyAfterConfirmation ==
    [][InPrune =>
         /\ ~DeletionConfirmed => dst' = dst
         /\ \A p \in Entries(dst) \ Entries(dst') :
               /\ DeletionConfirmed
               /\ IsFile(dst, p)
               /\ p \notin recursivly_get_files(src)]_vars

\* the operator asked for the list and then declined: the candidates are still there
C16_Witness ==
    /\ ~dry_run
    /\ pc = "done"
    /\ answers["delete"] = "l"
    /\ answers["delete2"] = "n"
    /\ files_to_delete # {}
    /\ \A f \in files_to_delete : IsFile(dst, f)

\* C17: when the removal of a file fails the process ends there: no step
\* follows, so no later deletion is attempted; the candidates deleted before
\* the failure are gone and the remaining ones are still in the destination.
C17_PruneFailsFast ==
    /\ [](error[1] = "unlink" =>
            /\ pc = "crashed"
            /\ \A f \in files_to_delete \ Range(unlink_queue) : ~Exists(dst, f)
            /\ \A f \in Range(unlink_queue) : IsFile(dst, f))
    /\ [][error[1] # "unlink"]_vars

\* a removal failed while another candidate was still waiting
C17_Witness ==
    /\ error = <<"unlink", "PermissionError">>
    /\ pc = "crashed"
    /\ Len(unlink_queue) > 1

\* sync_modified_files has returned normally to main
AfterSyncModified ==
    pc \in {"delete_files", "delete_prompt", "delete_prompt2", "unlink_files", "done"}

\* C18: in a real run no file copied by the new-file phase is flagged by the
\* modified-file phase or selected by the prune phase, and after a confirmed
\* modified-file copy the detection flags no file of the two trees.
C18_FreshScansSeeCopies ==
    /\ (~dry_run /\ answers["copy"] = "y") =>
          /\ Range(modified_files) \cap files_to_copy = {}
          /\ files_to_delete \cap files_to_copy = {}
    /\ (~dry_run /\ answers["modified"] = "y" /\ AfterSyncModified) =>
          Flagged(src, dst, CommonFiles) = {}

\* a real run copied a new file and then overwrote a modified one
C18_Witness ==
    /\ ~dry_run
    /\ pc = "done"
    /\ answers["copy"] = "y" /\ files_to_copy # {}
    /\ answers["modified"] = "y" /\ modified_files # <<>>
    /\ \A f \in files_to_copy : IsFile(dst, f)

\* C19: no step of any run, dry or real, interrupted or failed, changes the
\* source tree: its entries, their kinds and their timestamps stay as they are.
C19_SourceNeverChanges == [][src' = src]_vars

\* a real run has changed the destination and overwritten a modified file
C19_Witness ==
    /\ ~dry_run
    /\ Terminated
    /\ dst # dst0
    /\ counts["modified"] > 0

\* C20: in a real run the folder about to be created and the file about to
\* be copied have no entry of any kind at their destination path, and no
\* mkdir fails on an existing entry.
C20_PlannedPathsAreFree ==
    ~dry_run =>
        /\ (pc = "create_folders" /\ create_queue # <<>>) =>
               ~Exists(dst, Head(create_queue))
        /\ pc = "copying" => ~Exists(dst, Head(copy_queue))
        /\ error # <<"mkdir", "FileExistsError">>

Next ==
    \/ \E ans \in Answers : MainConfirm(ans)
    \/ SyncFoldersBegin
    \/ CreateFolder
    \/ CreateFoldersDone
    \/ DeleteFolder
    \/ SyncFoldersReturn
    \/ SyncFilesBegin
    \/ \E ans \in Answers : CopyConfirm(ans)
    \/ WouldCopyFile
    \/ CopyFileStart
    \/ CopyFileEnd
    \/ Interrupt
    \/ SyncFilesReturn
    \/ SyncModifiedBegin
    \/ \E ans \in Answers : ModifiedConfirm(ans)
    \/ CopyModifiedFile
    \/ SyncModifiedReturn
    \/ DeleteFilesBegin
    \/ \E ans \in Answers : DeleteConfirm(ans)
    \/ \E ans \in Answers : DeleteConfirmAfterList(ans)
    \/ DeleteFile
    \/ DeleteFilesReturn

Spec == Init /\ [][Next]_vars
====
